---- MODULE Spec2Model ----
(***************************************************************************)
(* The carousel engine (class Slider) of the netflix-clone front end, as a *)
(* state machine.  The engine object is the record `slider'; the rail it   *)
(* is built over and the browser around it (the running CSS transition of  *)
(* the track, the pending debounce timers, transitionend events bubbling   *)
(* up from the cards) are the remaining variables.                         *)
(***************************************************************************)
EXTENDS Integers, Sequences, FiniteSets, TLC

VARIABLES
    options,        \* this.options: visible, step, infinite, duration
    section,        \* the rail handed to the constructor: its .card-row and width
    pc,             \* "new" before `new Slider(...)', then "constructed" or "threw"
    slider,         \* the fields of the Slider object and of the elements it owns
    running,        \* the browser animates a transform transition of the track
    pendingResize,  \* resize debounce callbacks scheduled and not yet run
    lastEvent,      \* the handler that ran last and how it ended
    nNext,          \* walk driver: next() calls made
    nPrev,          \* walk driver: prev() calls made
    app,            \* the NetflixApp object, its fetches and the views of the page
    store,          \* the MemoryLikeStorage of the LikeManager
    popover,        \* a HoverModal, its timers, and the pointer and focus around it
    manager,        \* a ModalManager and the trigger elements of the document
    cache           \* a DataCache and the clock it reads

vars == <<options, section, pc, slider, running, pendingResize, lastEvent, nNext, nPrev,
          app, store, popover, manager, cache>>

\* The objects outside the rail under study.
document == <<app, store, popover, manager, cache>>

---------------------------------------------------------------------------
(* Bounds of the model *)

MaxCards == 3
MaxVisible == 2
MaxStep == 3
MaxIndex == 12
MaxBack == 3
MaxPage == 3
MaxWalk == 18
MaxRails == 2
MaxLoads == 2
MaxIds == 2
MaxClears == 1
MaxOrphans == 2
MaxHides == 2
\* Trigger elements in the document; HoverModals one manager constructs.
MaxTriggers == 2
MaxModals == 3
\* Advances of the clock a DataCache lives through.
MaxTicks == 3

(* Program constants *)

Gap == 8
SeedBatches == 10
LowWaterSteps == 3
GrowthFactor == 2
DefaultDuration == 450
RandomSpan == 490
RandomBase == 10
DEFAULT_TTL == 300000

Durations == {0, DefaultDuration}
CardWidths == {100, 150}

(* Widths the slider element can measure: those for which the card width *)
(* (sliderWidth - gap*(visible-1)) / visible is a whole number of pixels. *)
SliderWidths(visible) == {visible * w + Gap * (visible - 1) : w \in CardWidths}

---------------------------------------------------------------------------
(* Arithmetic of the host language *)

\* a % b of JavaScript: the remainder takes the sign of the dividend
JsRem(a, b) == IF a >= 0 THEN a % b ELSE -((-a) % b)

\* Math.ceil(a / b) for a >= 0, b > 0
CeilDiv(a, b) == (a + b - 1) \div b

\* Math.floor(a / b) for b > 0
FloorDiv(a, b) == a \div b

---------------------------------------------------------------------------
(* The Slider object *)

\* The field initialisers of the class.
FieldDefaults ==
    [ cardContainer |-> FALSE, cardCount |-> 0, totalPages |-> 0,
      track |-> FALSE, controls |-> FALSE,
      allCards |-> <<>>, trackCards |-> <<>>,
      cardWidth |-> 0, gap |-> 0, itemWidth |-> 0,
      resizeTimer |-> FALSE,
      currentIndex |-> 0, isMoving |-> FALSE,
      transform |-> 0, transition |-> "animated",
      currentPage |-> 0, labelPages |-> 0, activeDots |-> {},
      prevDisabled |-> FALSE, nextDisabled |-> FALSE,
      bound |-> FALSE, sliderInstance |-> FALSE ]

\* A clone of original card i % cardCount placed at position i.
CloneCard(s, i, width) ==
    [ originalIndex |-> i % s.cardCount, position |-> i, width |-> width ]

\* An original card moved into the track as it is: no position tag, width unset.
OriginalCard(i) == [ originalIndex |-> i, position |-> -1, width |-> -1 ]

updatePagination(s) ==
    IF ~s.controls THEN s
    ELSE LET logicalIndex == JsRem(s.currentIndex, s.cardCount)
             currentPage == FloorDiv(logicalIndex, options.step) + 1
         IN  [s EXCEPT !.currentPage = currentPage,
                       !.labelPages = s.totalPages,
                       !.activeDots = {i \in 0..(s.totalPages - 1) : i = currentPage - 1}]

\* updateButtons with the end of the rail compared by > where the code has >=.
updateButtonsStrict(s) ==
    IF ~s.controls THEN s
    ELSE IF options.infinite
         THEN [s EXCEPT !.prevDisabled = FALSE, !.nextDisabled = FALSE]
         ELSE [s EXCEPT !.prevDisabled = (s.currentIndex <= 0),
                        !.nextDisabled = (s.currentIndex > s.cardCount - options.visible)]

updateButtons(s) ==
    IF ~s.controls THEN s
    ELSE IF options.infinite
         THEN [s EXCEPT !.prevDisabled = FALSE, !.nextDisabled = FALSE]
         ELSE [s EXCEPT !.prevDisabled = (s.currentIndex <= 0),
                        !.nextDisabled = (s.currentIndex >= s.cardCount - options.visible)]

updateControls(s) == updateButtons(updatePagination(s))

goTo(s, index, animate) ==
    IF s.isMoving /\ animate THEN s
    ELSE IF ~s.track THEN s
    ELSE updateControls(
           [s EXCEPT !.currentIndex = index,
                     !.transform = -(index * s.itemWidth),
                     !.transition = IF animate THEN "animated" ELSE "none",
                     !.isMoving = IF animate THEN TRUE ELSE @])

\* _findElements: the state it leaves and the error it throws ("" when none).
findElements(s) ==
    IF ~section.hasCardRow
    THEN [s |-> s, error |-> "Card container (.card-row) not found"]
    ELSE LET found == [s EXCEPT !.cardContainer = TRUE, !.cardCount = section.children]
         IN  IF found.cardCount = 0
             THEN [s |-> found, error |-> "No cards found"]
             ELSE [s |-> [found EXCEPT !.totalPages = CeilDiv(found.cardCount, options.step)],
                   error |-> ""]

\* _buildDOM with _applyStyles, _buildControls and _buildDots: the track, the two
\* buttons, the page indicator and totalPages dots exist afterwards.
buildDOM(s) == [s EXCEPT !.track = TRUE, !.controls = TRUE, !.transition = "animated"]

createInfiniteLoop(s) ==
    IF ~options.infinite
    THEN [s EXCEPT !.trackCards = [i \in 1..s.cardCount |-> OriginalCard(i - 1)]]
    ELSE LET totalCards == options.visible + (options.step * SeedBatches)
             cards == [i \in 1..totalCards |-> CloneCard(s, i - 1, -1)]
         IN  [s EXCEPT !.allCards = cards, !.trackCards = cards]

\* The elements of allCards are the children of the track in infinite mode, and
\* allCards is empty otherwise: a width written through allCards shows in the track.
WithWidths(s, cards) ==
    [s EXCEPT !.allCards = cards,
              !.trackCards = IF options.infinite THEN cards ELSE @]

measure(s) ==
    IF ~s.track THEN s
    ELSE LET sliderWidth == section.offsetWidth
             cardWidth == (sliderWidth - (Gap * (options.visible - 1))) \div options.visible
             m == [s EXCEPT !.cardWidth = cardWidth, !.gap = Gap,
                            !.itemWidth = cardWidth + Gap]
         IN  WithWidths(m, [i \in 1..Len(s.allCards) |->
                                [s.allCards[i] EXCEPT !.width = cardWidth]])

\* _bind: the click, keydown, transitionend and window resize listeners.
bind(s) == [s EXCEPT !.bound = TRUE]

\* _init: the object it leaves and the error that leaves it ("" when none):
\* the catch block logs the error and ends normally.
init(s) ==
    LET f == findElements(s)
    IN  IF f.error # ""
        THEN [s |-> f.s, error |-> ""]
        ELSE LET ready == updateControls(goTo(measure(createInfiniteLoop(buildDOM(f.s))), 0, FALSE))
             IN  [s |-> [bind(ready) EXCEPT !.sliderInstance = TRUE], error |-> ""]

\* new Slider(section, opts)
constructor == init(FieldDefaults)

\* ensureEnoughCards appending one copy of the original cards where the code
\* appends two.
ensureEnoughCardsOneBatch(s) ==
    LET remainingCards == Len(s.allCards) - s.currentIndex - options.visible
    IN  IF remainingCards < options.step * LowWaterSteps
        THEN LET cardsToAdd == s.cardCount
                 currentLength == Len(s.allCards)
                 added == [i \in 1..cardsToAdd |->
                              CloneCard(s, currentLength + i - 1, s.cardWidth)]
             IN  [s EXCEPT !.allCards = @ \o added, !.trackCards = @ \o added]
        ELSE s

\* ensureEnoughCards numbering each batch from 0 again.
ensureEnoughCardsRestart(s) ==
    LET remainingCards == Len(s.allCards) - s.currentIndex - options.visible
    IN  IF remainingCards < options.step * LowWaterSteps
        THEN LET cardsToAdd == s.cardCount * GrowthFactor
                 added == [i \in 1..cardsToAdd |-> CloneCard(s, i - 1, s.cardWidth)]
             IN  [s EXCEPT !.allCards = @ \o added, !.trackCards = @ \o added]
        ELSE s

ensureEnoughCards(s) ==
    LET remainingCards == Len(s.allCards) - s.currentIndex - options.visible
    IN  IF remainingCards < options.step * LowWaterSteps
        THEN LET cardsToAdd == s.cardCount * GrowthFactor
                 currentLength == Len(s.allCards)
                 added == [i \in 1..cardsToAdd |->
                              CloneCard(s, currentLength + i - 1, s.cardWidth)]
             IN  [s EXCEPT !.allCards = @ \o added, !.trackCards = @ \o added]
        ELSE s

handleTransitionEnd(s) ==
    LET idle == [s EXCEPT !.isMoving = FALSE]
    IN  IF ~options.infinite THEN idle
        ELSE updateControls(ensureEnoughCards(idle))

\* next moving on by one card where the code moves by step.
nextByOne(s) ==
    IF s.isMoving THEN s
    ELSE LET moved == [s EXCEPT !.currentIndex = @ + 1]
         IN  goTo(moved, moved.currentIndex, TRUE)

\* next without its isMoving check.
nextUnguarded(s) ==
    LET moved == [s EXCEPT !.currentIndex = @ + options.step]
    IN  goTo(moved, moved.currentIndex, TRUE)

next(s) ==
    IF s.isMoving THEN s
    ELSE LET moved == [s EXCEPT !.currentIndex = @ + options.step]
         IN  goTo(moved, moved.currentIndex, TRUE)

\* prev moving back by the cards visible where the code moves by step.
prevByVisible(s) ==
    IF s.isMoving THEN s
    ELSE LET moved == [s EXCEPT !.currentIndex = @ - options.visible]
         IN  goTo(moved, moved.currentIndex, TRUE)

prev(s) ==
    IF s.isMoving THEN s
    ELSE LET moved == [s EXCEPT !.currentIndex = @ - options.step]
         IN  goTo(moved, moved.currentIndex, TRUE)

\* goToPage jumping by page*step from where the cursor is.
goToPageRelative(s, page) ==
    IF s.isMoving THEN s
    ELSE LET moved == [s EXCEPT !.currentIndex = @ + page * options.step]
         IN  goTo(moved, moved.currentIndex, TRUE)

goToPage(s, page) ==
    IF s.isMoving THEN s
    ELSE LET moved == [s EXCEPT !.currentIndex = page * options.step]
         IN  goTo(moved, moved.currentIndex, TRUE)

\* destroy leaving the back-reference on the section.
destroyKeepsReference(s) == s

\* destroy also ending the move in flight.
destroyStopsMove(s) == [s EXCEPT !.sliderInstance = FALSE, !.isMoving = FALSE]

\* destroy(), the part that acts on the object and its section: the back-reference
\* section._sliderInstance is deleted.
destroy(s) == [s EXCEPT !.sliderInstance = FALSE]

\* The resize callback going back to the first card.
resizeCallbackToStart(s) == LET m == measure(s) IN goTo(m, 0, FALSE)

\* The resize callback measuring and not positioning the track again.
resizeCallbackMeasureOnly(s) == measure(s)

\* The callback _handleResize schedules.
resizeCallback(s) == LET m == measure(s) IN goTo(m, m.currentIndex, FALSE)

---------------------------------------------------------------------------
(* The browser *)

\* Whether a transform transition of the track runs after a handler took the
\* object from `old' to `new': none with transition 'none' or a zero duration;
\* a new one starts when the transform changes; one in progress goes on.
BrowserRunning(old, new, run) ==
    IF ~new.track \/ new.transition = "none" \/ options.duration = 0 THEN FALSE
    ELSE run \/ new.transform # old.transform

\* _handleResize and destroy without their clearTimeout.
ClearTimerNever(s, pending) == pending

\* clearTimeout(this.resizeTimer) when the field is set: the timer it names, the
\* one scheduled last, no longer runs.
ClearTimer(s, pending) == IF s.resizeTimer /\ pending > 0 THEN pending - 1 ELSE pending

---------------------------------------------------------------------------
(* The page around the rail, before anything of it has run *)

\* The page before `new NetflixApp()': the document as it was served, no fetch
\* issued, no engine held.
AppAtRest ==
    [ pc |-> "idle",              \* "idle", "loading", "sliders", "ready", "failed"
      hasHero |-> FALSE,          \* the document has a .hero element
      rails |-> <<>>,             \* the .category-section[data-slider] elements
      i |-> 0,                    \* the rail the forEach of initializeSliders is at
      sliders |-> <<>>,           \* this.sliders: the rail and the track of each engine
      heroFetch |-> "none",       \* "none", "outstanding", "fulfilled", "rejected"
      contentFetch |-> "none",
      heroFetches |-> 0,          \* requests issued for hero.json
      contentFetches |-> 0,       \* requests issued for contents.json
      heroPromise |-> "none",     \* loadHeroContent(): "none", "pending", "fulfilled", "rejected"
      mainPromise |-> "none",     \* loadMainContent()
      heroView |-> "served",      \* the hero section: "served", "rendered", "error"
      mainLoading |-> FALSE,      \* main holds the .loading-container
      mainSections |-> FALSE,     \* main holds rendered sections
      mainError |-> FALSE,        \* main holds the .error-container
      loadingElements |-> {},     \* LoadingManager.loadingElements
      appErrors |-> 0,            \* runs of handleAppError
      fullPageError |-> FALSE,    \* the fixed error box with its reload button
      loads |-> 1 ]               \* loads of the page

\* The LikeManager after its constructor: nothing liked, no count, no button.
StoreAtRest ==
    [ likes |-> {},               \* MemoryLikeStorage.likes
      likeCounts |-> <<>>,        \* MemoryLikeStorage.likeCounts, a map from ids
      likeButtons |-> <<>>,       \* LikeManager.likeButtons: what each button shows
      base |-> <<>>,              \* history: the count initializeRandomCounts gave an id
      streak |-> <<>>,            \* history: the run of toggleLike calls on one id
      clears |-> 0 ]              \* history: calls of clearAllLikes

\* A timer field of HoverModal.timers with the timers set through it: the field
\* is null, names a pending timer ("live") or names one that has fired
\* ("stale"); `orphans' counts the pending timers the field no longer names,
\* and `old' those of them set before the pointer last entered the container.
NoTimer == [ field |-> "null", orphans |-> 0, old |-> 0 ]

\* A HoverModal after its constructor, the pointer and the focus elsewhere.
PopoverAtRest ==
    [ type |-> "profile",         \* ModalType: "profile" or "notifications"
      isVisible |-> FALSE,
      hidden |-> TRUE,            \* container.hidden
      ariaHidden |-> TRUE,        \* aria-hidden of the container
      ariaExpanded |-> FALSE,     \* aria-expanded of the trigger
      open |-> NoTimer,           \* timers.open
      close |-> NoTimer,          \* timers.close
      hides |-> 0,                \* pending 200 ms callbacks of hide()
      pointer |-> "outside",      \* "outside", "trigger", "container"
      focus |-> "outside",        \* "outside", "trigger", "container"
      attached |-> TRUE,          \* the container is a child of the portal
      closeOnOutsideClick |-> FALSE ]

\* The trigger elements of the document, in document order.
Triggers == 1..MaxTriggers

\* A ModalManager before its constructor ran, in a document whose triggers
\* carry neither attribute.
ManagerAtRest ==
    [ pc |-> "new",                             \* "new", "ready"
      hoverModal |-> [t \in Triggers |-> "none"],   \* data-hover-modal of each trigger
      dataModal |-> [t \in Triggers |-> "none"],    \* data-modal of each trigger
      portal |-> FALSE,                         \* #modal-root is in the document
      modals |-> <<>>,                          \* the Map: trigger -> [id, type]
      live |-> {},                              \* <<trigger, id>> constructed, not destroyed
      destroyed |-> {},                         \* <<trigger, id>> the last call destroyed
      made |-> 0 ]                              \* HoverModals constructed so far

\* The keys the cache is used with.
Keys == {"hero", "content"}

\* A DataCache after construction.
CacheAtRest ==
    [ cache |-> <<>>,                       \* the Map: key -> [data, timestamp, ttl]
      now |-> 0,                            \* Date.now()
      ticks |-> 0,                          \* advances of the clock so far
      returned |-> <<>>,                    \* what the last call returned: <<>> is null or nothing
      last |-> [key \in Keys |-> <<>>],      \* the entry of the most recent set of a key
      removed |-> {} ]                      \* keys deleted or cleared since their last set

---------------------------------------------------------------------------
(* The state machine *)

Init ==
    /\ options \in [visible : 1..MaxVisible, step : 1..MaxStep,
                    infinite : BOOLEAN, duration : Durations]
    /\ section \in {r \in [hasCardRow : BOOLEAN, children : 0..MaxCards,
                           offsetWidth : UNION {SliderWidths(v) : v \in 1..MaxVisible}] :
                        /\ r.offsetWidth \in SliderWidths(options.visible)
                        /\ (~r.hasCardRow => r.children = 0)}
    /\ pc = "new"
    /\ slider = FieldDefaults
    /\ running = FALSE
    /\ pendingResize = 0
    /\ lastEvent = <<"none", "">>
    /\ nNext = 0
    /\ nPrev = 0
    /\ app = AppAtRest
    /\ store = StoreAtRest
    /\ popover = PopoverAtRest
    /\ manager = ManagerAtRest
    /\ cache = CacheAtRest

\* What a handler that took the object to `s2' leaves behind.
Handled(s2, event) ==
    /\ slider' = s2
    /\ running' = BrowserRunning(slider, s2, running)
    /\ lastEvent' = event
    /\ UNCHANGED <<options, section, pc, document>>

Outcome(name) == IF slider.isMoving THEN <<name, "ignored">> ELSE <<name, "accepted">>

\* new Slider(section, opts) returns, or throws to its caller.
Construct ==
    /\ pc = "new"
    /\ LET made == constructor
       IN  /\ pc' = IF made.error = "" THEN "constructed" ELSE "threw"
           /\ slider' = made.s
           /\ running' = BrowserRunning(slider, made.s, running)
    /\ lastEvent' = <<"constructor", "">>
    /\ UNCHANGED <<options, section, pendingResize, nNext, nPrev, document>>

\* next(): the next button, the ArrowRight key, or a caller holding the object.
CallNext ==
    /\ pc = "constructed"
    /\ slider.currentIndex + options.step <= MaxIndex
    /\ Handled(next(slider), Outcome("next"))
    /\ UNCHANGED <<pendingResize, nNext, nPrev>>

\* prev(): the previous button, the ArrowLeft key, or a caller holding the object.
CallPrev ==
    /\ pc = "constructed"
    /\ slider.currentIndex - options.step >= -MaxBack
    /\ Handled(prev(slider), Outcome("prev"))
    /\ UNCHANGED <<pendingResize, nNext, nPrev>>

\* goToPage(page): a dot, or a caller holding the object.
CallGoToPage(page) ==
    /\ pc = "constructed"
    /\ page * options.step <= MaxIndex
    /\ Handled(goToPage(slider, page), Outcome("goToPage"))
    /\ UNCHANGED <<pendingResize, nNext, nPrev>>

\* The transform transition of the track ends; its transitionend reaches the
\* listener on the track.
TransitionEnd ==
    /\ slider.bound
    /\ running
    /\ slider' = handleTransitionEnd(slider)
    /\ running' = FALSE
    /\ lastEvent' = <<"transitionend", "track">>
    /\ UNCHANGED <<options, section, pc, pendingResize, nNext, nPrev, document>>

\* A transition of an element inside a card (the like button fades in on hover)
\* ends; its transitionend bubbles to the listener on the track.
BubbledTransitionEnd ==
    /\ slider.bound
    /\ Len(slider.trackCards) > 0
    /\ slider' = handleTransitionEnd(slider)
    /\ lastEvent' = <<"transitionend", "card">>
    /\ UNCHANGED <<options, section, pc, running, pendingResize, nNext, nPrev, document>>

\* The window is resized: the slider element has width w and _handleResize runs.
WindowResize(w) ==
    /\ slider.bound
    /\ section' = [section EXCEPT !.offsetWidth = w]
    /\ pendingResize' = ClearTimer(slider, pendingResize) + 1
    /\ slider' = [slider EXCEPT !.resizeTimer = TRUE]
    /\ lastEvent' = <<"resize", IF ClearTimer(slider, pendingResize) < pendingResize
                                THEN "rescheduled" ELSE "scheduled">>
    /\ UNCHANGED <<options, pc, running, nNext, nPrev, document>>

\* A debounce timer expires.
ResizeTimeout ==
    /\ pendingResize > 0
    /\ pendingResize' = pendingResize - 1
    /\ Handled(resizeCallback(slider), <<"resize", "measured">>)
    /\ UNCHANGED <<nNext, nPrev>>

\* destroy(): the page's destroy() calls it on every engine it holds.
Destroy ==
    /\ pc = "constructed"
    /\ pendingResize' = ClearTimer(slider, pendingResize)
    /\ slider' = destroy(slider)
    /\ lastEvent' = <<"destroy", IF ClearTimer(slider, pendingResize) < pendingResize
                                 THEN "cancelled" ELSE "">>
    /\ UNCHANGED <<options, section, pc, running, nNext, nPrev, document>>

Next ==
    \/ Construct
    \/ CallNext
    \/ CallPrev
    \/ \E page \in 0..MaxPage : CallGoToPage(page)
    \/ TransitionEnd
    \/ BubbledTransitionEnd
    \/ \E w \in SliderWidths(options.visible) : WindowResize(w)
    \/ ResizeTimeout
    \/ Destroy

Spec == Init /\ [][Next]_vars

---------------------------------------------------------------------------
(* The walk: k calls of next(), then calls of prev(), each made once the
   move before it has completed. *)

WalkNext ==
    /\ pc = "constructed"
    /\ ~slider.isMoving
    /\ nPrev = 0
    /\ nNext < MaxWalk
    /\ Handled(next(slider), Outcome("next"))
    /\ nNext' = nNext + 1
    /\ UNCHANGED <<pendingResize, nPrev>>

WalkPrev ==
    /\ pc = "constructed"
    /\ ~slider.isMoving
    /\ nPrev < nNext
    /\ Handled(prev(slider), Outcome("prev"))
    /\ nPrev' = nPrev + 1
    /\ UNCHANGED <<pendingResize, nNext>>

WalkStep ==
    \/ Construct
    \/ WalkNext
    \/ WalkPrev
    \/ TransitionEnd

SpecWalk == Init /\ [][WalkStep]_vars

---------------------------------------------------------------------------
(* The Idle/Moving machine under the browser's guarantee that a transition
   that runs ends, and that its transitionend is then delivered. *)

LiveNext ==
    \/ Construct
    \/ CallNext
    \/ CallPrev
    \/ \E page \in 0..MaxPage : CallGoToPage(page)
    \/ TransitionEnd

\* The configuration the page gives every rail: duration 450.
LiveInit == Init /\ options.duration = DefaultDuration

LiveSpec == LiveInit /\ [][LiveNext]_vars /\ WF_vars(TransitionEnd)

---------------------------------------------------------------------------
(* The rail as its own controls drive it: the two buttons (a disabled button
   gets no click) and the dots, one per page. *)

ClickNext == slider.bound /\ ~slider.nextDisabled /\ CallNext

ClickPrev == slider.bound /\ ~slider.prevDisabled /\ CallPrev

ClickDot(i) == slider.bound /\ i < slider.totalPages /\ CallGoToPage(i)

ControlsNext ==
    \/ Construct
    \/ ClickNext
    \/ ClickPrev
    \/ \E i \in 0..MaxPage : ClickDot(i)
    \/ TransitionEnd

SpecControls == Init /\ [][ControlsNext]_vars

---------------------------------------------------------------------------
(* The rail under every input of the user the engine binds: the buttons, the
   dots, and the arrow keys pressed with the focus inside the slider. *)

\* keydown ArrowRight reaches the listener on the slider element.
KeyArrowRight == slider.bound /\ CallNext

\* keydown ArrowLeft reaches the listener on the slider element.
KeyArrowLeft == slider.bound /\ CallPrev

UserNext ==
    \/ Construct
    \/ ClickNext
    \/ ClickPrev
    \/ \E i \in 0..MaxPage : ClickDot(i)
    \/ KeyArrowRight
    \/ KeyArrowLeft
    \/ TransitionEnd

SpecUser == Init /\ [][UserNext]_vars

---------------------------------------------------------------------------
(* Properties *)

Built == pc = "constructed" /\ slider.track

Idle == ~slider.isMoving

RemainingCards == Len(slider.allCards) - slider.currentIndex - options.visible

\* C1. Growth invariant: in infinite mode, after every completed move of a walk
\* of next() calls, allCards.length - currentIndex - visible >= 0.
GrowthInvariant ==
    (Built /\ options.infinite /\ nPrev = 0 /\ Idle) => RemainingCards >= 0

\* C5. Step monotonicity: after k calls of next(), each followed by its
\* completion, currentIndex = k*step; after k further calls of prev(), each
\* followed by its completion, currentIndex = 0 again.
StepMonotonicity ==
    pc = "constructed" =>
        /\ slider.currentIndex = (nNext - nPrev) * options.step
        /\ (nPrev = nNext => slider.currentIndex = 0)

\* C5 happens: three calls of next() and three of prev(), all completed.
StepMonotonicityWitness ==
    /\ Built /\ Idle
    /\ nNext = 3 /\ nPrev = 3
    /\ lastEvent = <<"transitionend", "track">>
    /\ slider.currentIndex = 0

MoveRequest == CallNext \/ CallPrev \/ \E page \in 0..MaxPage : CallGoToPage(page)

Completion == TransitionEnd \/ BubbledTransitionEnd

\* C2. Busy rejection: next(), prev() or goToPage(p) called while isMoving
\* changes nothing of the engine, of the translation, of the sequence or of the
\* controls, and a later completion does not carry the request out.
BusyRejection ==
    [][ /\ (slider.isMoving /\ MoveRequest) =>
               (slider' = slider /\ running' = running /\ pendingResize' = pendingResize)
        /\ Completion =>
               (/\ slider'.currentIndex = slider.currentIndex
                /\ slider'.transform = slider.transform) ]_vars

\* C2 happens: a request has just been ignored by an engine that is moving.
BusyRejectionWitness ==
    /\ Built /\ slider.isMoving /\ running
    /\ lastEvent[2] = "ignored"

\* C3. At most one animated move is in flight: isMoving is cleared only by the
\* completion of the track's own transition, and a request is accepted only
\* when no transition of the track is running.
OneMoveInFlight ==
    [][ /\ (slider.isMoving /\ ~slider'.isMoving) => (running /\ ~running')
        /\ (lastEvent'[2] = "accepted") => ~running ]_vars

\* C4. After every accepted request the engine eventually returns to Idle.
MovingReturnsToIdle == [](slider.isMoving => <>(~slider.isMoving))

\* C6. The cursor stays inside the materialized sequence: after every completed
\* move of next(), prev() or goToPage(p) with 0 <= p < totalPages,
\* currentIndex >= 0 and currentIndex + visible <= allCards.length.
CursorInsideSequence ==
    (Built /\ options.infinite /\ Idle) =>
        /\ slider.currentIndex >= 0
        /\ slider.currentIndex + options.visible <= Len(slider.allCards)

\* C7. The label shows page floor((currentIndex mod cardCount)/step) + 1 of
\* ceil(cardCount/step) in every state.
PaginationLabel ==
    Built =>
        /\ slider.currentPage =
               ((slider.currentIndex % slider.cardCount) \div options.step) + 1
        /\ slider.labelPages = CeilDiv(slider.cardCount, options.step)

\* C8. Exactly one dot is active, the one at index currentPage - 1, and
\* 1 <= currentPage <= totalPages.
ExactlyOneActiveDot ==
    Built =>
        /\ Cardinality(slider.activeDots) = 1
        /\ slider.activeDots = {slider.currentPage - 1}
        /\ 1 <= slider.currentPage /\ slider.currentPage <= slider.totalPages

\* C9. In infinite mode both controls are enabled; otherwise previous is
\* disabled exactly when currentIndex <= 0 and next exactly when
\* currentIndex >= cardCount - visible.
ButtonsDisabledState ==
    Built =>
        IF options.infinite
        THEN ~slider.prevDisabled /\ ~slider.nextDisabled
        ELSE /\ slider.prevDisabled = (slider.currentIndex <= 0)
             /\ slider.nextDisabled =
                    (slider.currentIndex >= slider.cardCount - options.visible)

\* C9 happens: a finite rail moved by next() to the index cardCount - visible,
\* where next is disabled and previous is not.
ButtonsDisabledWitness ==
    /\ Built /\ ~options.infinite
    /\ lastEvent = <<"next", "accepted">>
    /\ slider.currentIndex = slider.cardCount - options.visible
    /\ slider.nextDisabled /\ ~slider.prevDisabled

\* C10. Constructing the engine over a rail with zero cards throws to the
\* caller, who gets no engine object, and materializes nothing.
EmptyRailThrows ==
    (pc # "new" /\ section.hasCardRow /\ section.children = 0) =>
        (pc = "threw" /\ slider.allCards = <<>>)

---------------------------------------------------------------------------
(* Resize and destroy *)

ResizeEvent == \E w \in SliderWidths(options.visible) : WindowResize(w)

\* The width _measure would give the cards at the slider's present width.
MeasuredCardWidth ==
    (section.offsetWidth - Gap * (options.visible - 1)) \div options.visible

\* destroy() has been called on a successfully constructed engine.
Destroyed == Built /\ ~slider.sliderInstance

\* C11. Resize debouncing: at most one resize timer is pending at any time; a
\* burst of resize events is followed by one re-measurement, after which no
\* timer is pending and the geometry is the one of the slider's present width,
\* whatever the number of events of the burst.
ResizeDebounced ==
    /\ pendingResize <= 1
    /\ lastEvent = <<"resize", "measured">> =>
           /\ pendingResize = 0
           /\ slider.cardWidth = MeasuredCardWidth
           /\ slider.itemWidth = MeasuredCardWidth + Gap

\* C11 happens: a resize event of a burst has replaced the timer of the event
\* before it, and the one timer left is to measure a width not yet measured.
ResizeDebouncedWitness ==
    /\ lastEvent = <<"resize", "rescheduled">>
    /\ pendingResize = 1
    /\ slider.cardWidth # MeasuredCardWidth

\* C12. Neither a resize event nor the debounced re-measurement changes
\* currentIndex, isMoving or the length of the materialized sequence, in Idle
\* and in Moving alike.
ResizeKeepsCursor ==
    [][ (ResizeEvent \/ ResizeTimeout) =>
            /\ slider'.currentIndex = slider.currentIndex
            /\ slider'.isMoving = slider.isMoving
            /\ Len(slider'.allCards) = Len(slider.allCards) ]_vars

\* C12 happens: the re-measurement ran on an engine that is moving, away from
\* the first card, and gave the cards another width.
ResizeKeepsCursorWitness ==
    /\ lastEvent = <<"resize", "measured">>
    /\ slider.isMoving
    /\ slider.currentIndex # 0
    /\ slider.cardWidth = 150

\* C13. destroy() leaves no resize timer pending and no back-reference on the
\* section, and a destroy() that follows a destroy() changes nothing.
DestroyCancelsAndDetaches ==
    [][ Destroy =>
            /\ pendingResize' = 0
            /\ ~slider'.sliderInstance
            /\ lastEvent[1] = "destroy" =>
                   (/\ slider' = slider
                    /\ pendingResize' = pendingResize
                    /\ running' = running
                    /\ section' = section) ]_vars

\* C13 happens: destroy() has cancelled a pending timer of a built engine.
DestroyCancelsWitness ==
    /\ Destroyed
    /\ lastEvent = <<"destroy", "cancelled">>
    /\ pendingResize = 0

\* C14. After destroy() no resize event and no click on a control schedules a
\* timer, re-measures the geometry or changes currentIndex or isMoving.
DestroyedIgnoresEvents ==
    [][ (Destroyed /\ (ResizeEvent \/ ResizeTimeout \/ ClickNext \/ ClickPrev
                          \/ \E i \in 0..MaxPage : ClickDot(i))) =>
            /\ pendingResize' = pendingResize
            /\ slider'.cardWidth = slider.cardWidth
            /\ slider'.currentIndex = slider.currentIndex
            /\ slider'.isMoving = slider.isMoving ]_vars

\* C15. destroy() does not clear isMoving and does not stop the transition in
\* flight; a transitionend delivered after destroy() is handled and leaves the
\* engine Idle.
CompletionAfterDestroy ==
    [][ /\ Destroy =>
               (slider'.isMoving = slider.isMoving /\ running' = running)
        /\ (Destroyed /\ Completion) => ~slider'.isMoving ]_vars

\* C15 happens: the move in flight at destroy() has completed after it.
CompletionAfterDestroyWitness ==
    /\ Destroyed
    /\ lastEvent = <<"transitionend", "track">>
    /\ ~slider.isMoving /\ ~running
    /\ slider.currentIndex # 0

---------------------------------------------------------------------------
(* The recycled sequence and the cursor *)

SeedLength == options.visible + options.step * SeedBatches

\* b keeps every card of a, in place, under the same identity; the widths, which
\* a re-measurement rewrites, are left out of the comparison.
KeepsCards(a, b) ==
    /\ Len(a) <= Len(b)
    /\ \A i \in 1..Len(a) :
           /\ b[i].originalIndex = a[i].originalIndex
           /\ b[i].position = a[i].position

\* After construction: entries are never removed or replaced; a completion in
\* infinite mode appends cardCount*2 entries when fewer than step*3 remain
\* beyond the window and none otherwise; nothing else changes the sequence.
SequenceStepRule ==
    pc = "constructed" =>
        /\ KeepsCards(slider.allCards, slider'.allCards)
        /\ Len(slider'.allCards) =
               Len(slider.allCards) +
                   (IF options.infinite
                       /\ RemainingCards < options.step * LowWaterSteps
                       /\ Completion
                    THEN slider.cardCount * GrowthFactor ELSE 0)

\* C16 as stated. The sequence has exactly visible + step*10 entries after
\* construction, and afterwards follows the growth rule.
RecycledSequenceRuleAsStated ==
    [][ /\ (pc = "new" /\ pc' = "constructed") =>
               Len(slider'.allCards) = SeedLength
        /\ SequenceStepRule ]_vars

\* C16 as amended. After construction the sequence has exactly
\* visible + step*10 entries in infinite mode over a rail that was built, and is
\* empty otherwise (in non-infinite mode the original cards are moved into the
\* track); afterwards it follows the growth rule.
RecycledSequenceRule ==
    [][ /\ (pc = "new" /\ pc' = "constructed") =>
               Len(slider'.allCards) =
                   (IF options.infinite /\ slider'.track THEN SeedLength ELSE 0)
        /\ SequenceStepRule ]_vars

\* C16 happens: a completion has appended the first batch of cardCount*2 cards
\* to the seeded sequence.
RecycledSequenceWitness ==
    /\ Built /\ options.infinite
    /\ lastEvent[1] = "transitionend"
    /\ Len(slider.allCards) = SeedLength + slider.cardCount * GrowthFactor

\* C17. Modular labelling: the card at index i carries position = i and
\* originalIndex = i mod cardCount, through every growth batch.
ModularLabelling ==
    Built =>
        \A i \in 1..Len(slider.allCards) :
            /\ slider.allCards[i].position = i - 1
            /\ slider.allCards[i].originalIndex = (i - 1) % slider.cardCount

\* C17 happens: two batches have been appended to a sequence whose seeded length
\* is no multiple of cardCount.
ModularLabellingWitness ==
    /\ Built /\ options.infinite
    /\ SeedLength % slider.cardCount # 0
    /\ Len(slider.allCards) = SeedLength + 2 * slider.cardCount * GrowthFactor

\* C18. currentIndex is a multiple of step in every state, and a step changes
\* it only by +step, by -step or to p*step.
CursorMultipleOfStep ==
    [][ /\ slider'.currentIndex % options.step = 0
        /\ slider'.currentIndex # slider.currentIndex =>
               \/ slider'.currentIndex = slider.currentIndex + options.step
               \/ slider'.currentIndex = slider.currentIndex - options.step
               \/ \E p \in 0..MaxPage : slider'.currentIndex = p * options.step ]_vars

\* C18 happens: with a step above 1, prev() has taken the cursor one step below 0.
CursorMultipleOfStepWitness ==
    /\ Built /\ options.step > 1
    /\ lastEvent = <<"prev", "accepted">>
    /\ slider.currentIndex = -options.step

\* C19. goToPage(p) on an Idle engine is an absolute jump: afterwards
\* currentIndex = p*step whatever it was, and the engine is Moving, for pages
\* beyond totalPages too.
GoToPageAbsolute ==
    [][ \A p \in 0..MaxPage :
            (Idle /\ CallGoToPage(p)) =>
                (slider'.currentIndex = p * options.step /\ slider'.isMoving) ]_vars

\* C20. Translation consistency: the translation applied to the track of a
\* successfully constructed engine is -(currentIndex * itemWidth).
TranslationConsistent ==
    Built => slider.transform = -(slider.currentIndex * slider.itemWidth)

\* C20 happens: a re-measurement has changed itemWidth with the cursor away
\* from the first card.
TranslationConsistentWitness ==
    /\ Built
    /\ lastEvent = <<"resize", "measured">>
    /\ slider.currentIndex > 0
    /\ slider.itemWidth = 150 + Gap
    /\ slider.transform = -(slider.currentIndex * (150 + Gap))

\* C21. Card width consistency: every card in the track of a constructed engine
\* has its width set to the engine's cardWidth, in both modes.
CardWidthConsistent ==
    Built =>
        \A i \in 1..Len(slider.trackCards) :
            slider.trackCards[i].width = slider.cardWidth

---------------------------------------------------------------------------
(* The like subsystem: MemoryLikeStorage and LikeManager *)

Ids == 1..MaxIds

\* floor(Math.random() * 490): the ends of its range.
RandomFloors == {0, RandomSpan - 1}

\* Map.set(k, v)
Put(f, k, v) == [x \in (DOMAIN f) \cup {k} |-> IF x = k THEN v ELSE f[x]]

Max(a, b) == IF a >= b THEN a ELSE b

isLiked(st, id) == id \in st.likes

\* getLikeCount: likeCounts.get(id) || 0
getLikeCount(st, id) == IF id \in DOMAIN st.likeCounts THEN st.likeCounts[id] ELSE 0

\* toggle that leaves the count alone when a like is added.
toggleKeepsCount(st, id) ==
    IF id \in st.likes
    THEN [st |-> [st EXCEPT !.likes = @ \ {id},
                            !.likeCounts = Put(@, id, Max(0, getLikeCount(st, id) - 1))],
          returned |-> FALSE]
    ELSE [st |-> [st EXCEPT !.likes = @ \cup {id},
                            !.likeCounts = Put(@, id, getLikeCount(st, id))],
          returned |-> TRUE]

\* toggle that leaves the count alone when a like is removed.
toggleNeverDecrements(st, id) ==
    IF id \in st.likes
    THEN [st |-> [st EXCEPT !.likes = @ \ {id},
                            !.likeCounts = Put(@, id, getLikeCount(st, id))],
          returned |-> FALSE]
    ELSE [st |-> [st EXCEPT !.likes = @ \cup {id},
                            !.likeCounts = Put(@, id, getLikeCount(st, id) + 1)],
          returned |-> TRUE]

\* MemoryLikeStorage.toggle: the store it leaves and the boolean it returns.
toggle(st, id) ==
    IF id \in st.likes
    THEN LET currentCount == getLikeCount(st, id)
         IN  [st |-> [st EXCEPT !.likes = @ \ {id},
                                !.likeCounts = Put(@, id, Max(0, currentCount - 1))],
              returned |-> FALSE]
    ELSE LET currentCount == getLikeCount(st, id)
         IN  [st |-> [st EXCEPT !.likes = @ \cup {id},
                                !.likeCounts = Put(@, id, currentCount + 1)],
              returned |-> TRUE]

\* setButtonState(button, isLiked): the active class and the count the button shows.
setButtonState(st, id, liked) ==
    [st EXCEPT !.likeButtons = Put(@, id, [active |-> liked, count |-> getLikeCount(st, id)])]

updateButtonState(st, id, liked) ==
    IF id \notin DOMAIN st.likeButtons THEN st ELSE setButtonState(st, id, liked)

\* LikeManager.toggleLike
toggleLike(st, id) ==
    LET t == toggle(st, id)
    IN  [st |-> updateButtonState(t.st, id, t.returned), returned |-> t.returned]

\* initializeRandomCounts giving every id of the list a new count.
initializeRandomCountsOverwrites(st, contentIds, floors) ==
    [st EXCEPT !.likeCounts = [x \in (DOMAIN @) \cup contentIds |->
                                  IF x \in contentIds
                                  THEN floors[x] + RandomBase ELSE @[x]]]

\* initializeRandomCounts: floors[id] is floor(Math.random() * 490) for id.
initializeRandomCounts(st, contentIds, floors) ==
    [st EXCEPT !.likeCounts = [x \in (DOMAIN @) \cup contentIds |->
                                  IF x \in DOMAIN @
                                  THEN @[x] ELSE floors[x] + RandomBase]]

\* renderLikeButton(content): a new button showing the present state of the id.
renderLikeButton(st, id) == setButtonState(st, id, isLiked(st, id))

\* LikeManager.clearAllLikes: the set of likes is emptied and every button is
\* set to not liked.
clearAllLikes(st) ==
    LET cleared == [st EXCEPT !.likes = {}]
    IN  [cleared EXCEPT !.likeButtons =
             [x \in DOMAIN @ |-> [active |-> FALSE, count |-> getLikeCount(cleared, x)]]]

\* LikeManager.destroy
destroyLikeManager(st) == [st EXCEPT !.likeButtons = <<>>]

---------------------------------------------------------------------------
(* The application: NetflixApp.init, its two loaders and initializeSliders *)

\* A rail of the document: its .card-row and the cards in it.
RailKinds ==
    {r \in [hasCardRow : BOOLEAN, children : 0..MaxCards] :
        ~r.hasCardRow => r.children = 0}

RailLists == UNION {[1..n -> RailKinds] : n \in 0..MaxRails}

\* The rail as the element the Slider constructor is handed, at the page's width.
RailSection(rail, width) ==
    [hasCardRow |-> rail.hasCardRow, children |-> rail.children, offsetWidth |-> width]

\* The page calls every rail with infinite: true and duration: 450; visible and
\* step come from the rail's data attributes, here the same for every rail.
AppInit ==
    /\ options \in [visible : 1..MaxVisible, step : 1..MaxStep,
                    infinite : {TRUE}, duration : {DefaultDuration}]
    /\ section \in {RailSection([hasCardRow |-> FALSE, children |-> 0], w) :
                        w \in SliderWidths(options.visible)}
    /\ pc = "new"
    /\ slider = FieldDefaults
    /\ running = FALSE
    /\ pendingResize = 0
    /\ lastEvent = <<"none", "">>
    /\ nNext = 0
    /\ nPrev = 0
    /\ app \in {[AppAtRest EXCEPT !.hasHero = h, !.rails = rs] :
                    h \in BOOLEAN, rs \in RailLists}
    /\ store = StoreAtRest
    /\ popover = PopoverAtRest
    /\ manager = ManagerAtRest
    /\ cache = CacheAtRest

rail == <<options, section, pc, slider, running, pendingResize, nNext, nPrev>>

\* LoadingManager.showLoading(main): the container's content is replaced by the
\* loading indicator and the container is tracked.
showLoading(a) ==
    [a EXCEPT !.mainLoading = TRUE, !.mainSections = FALSE, !.mainError = FALSE,
              !.loadingElements = @ \cup {"main"}]

\* LoadingManager.showError(main): the content is replaced by the error view with
\* its reload button, and the container is no longer tracked.
showError(a) ==
    [a EXCEPT !.mainLoading = FALSE, !.mainSections = FALSE, !.mainError = TRUE,
              !.loadingElements = @ \ {"main"}]

\* LoadingManager.hideLoading(main): the container is no longer tracked; its
\* content is left as it is.
hideLoading(a) == [a EXCEPT !.loadingElements = @ \ {"main"}]

\* handleAppError: the fixed error box is appended to the body.
handleAppError(a) ==
    [a EXCEPT !.appErrors = @ + 1, !.fullPageError = TRUE, !.pc = "failed"]

\* loadHeroContent up to its await: nothing to do without a .hero element,
\* otherwise hero.json is requested.
loadHeroContentStart(a) ==
    IF ~a.hasHero THEN [a EXCEPT !.heroPromise = "fulfilled"]
    ELSE [a EXCEPT !.heroPromise = "pending", !.heroFetch = "outstanding",
                   !.heroFetches = @ + 1]

\* loadMainContent up to its await: the loading indicator, then contents.json
\* is requested.
loadMainContentStart(a) ==
    [showLoading(a) EXCEPT !.mainPromise = "pending", !.contentFetch = "outstanding",
                           !.contentFetches = @ + 1]

\* new NetflixApp(): init() runs up to the await of Promise.all.
AppStart ==
    /\ app.pc = "idle"
    /\ app' = [loadMainContentStart(loadHeroContentStart(app)) EXCEPT !.pc = "loading"]
    /\ lastEvent' = <<"init", "">>
    /\ UNCHANGED <<rail, store, popover, manager, cache>>

\* The hero request settles: the hero is rendered, or the catch block of
\* loadHeroContent shows the error view in the hero section.
HeroFetchSettles(ok) ==
    /\ app.pc = "loading"
    /\ app.heroFetch = "outstanding"
    /\ app' = [app EXCEPT !.heroFetch = IF ok THEN "fulfilled" ELSE "rejected",
                          !.heroView = IF ok THEN "rendered" ELSE "error",
                          !.heroPromise = "fulfilled"]
    /\ lastEvent' = <<"hero", IF ok THEN "fulfilled" ELSE "rejected">>
    /\ UNCHANGED <<rail, store, popover, manager, cache>>

\* The content request is rejected: the catch block of loadMainContent shows
\* the error view in main.
ContentFetchRejects ==
    /\ app.pc = "loading"
    /\ app.contentFetch = "outstanding"
    /\ app' = [showError(app) EXCEPT !.contentFetch = "rejected",
                                     !.mainPromise = "fulfilled"]
    /\ lastEvent' = <<"content", "rejected">>
    /\ UNCHANGED <<rail, store, popover, manager, cache>>

\* renderContentSections: a random count for every content id without one, then
\* a like button on the card of every content.
renderContentSections(st, contentIds, floors) ==
    LET counted == initializeRandomCounts(st, contentIds, floors)
        Cards[todo \in SUBSET contentIds] ==
            IF todo = {} THEN counted
            ELSE LET id == CHOOSE x \in todo : \A y \in todo : x <= y
                 IN  renderLikeButton(Cards[todo \ {id}], id)
    IN  Cards[contentIds]

\* The content request is fulfilled: the sections are rendered, every content
\* with its count and its like button, and initializeSliders starts on the
\* first rail of the document.
ContentFetchFulfils(floors) ==
    /\ app.pc = "loading"
    /\ app.contentFetch = "outstanding"
    /\ app' = [app EXCEPT !.contentFetch = "fulfilled", !.mainSections = TRUE,
                          !.pc = "sliders", !.i = 1]
    /\ section' = IF app.rails # <<>>
                  THEN RailSection(app.rails[1], section.offsetWidth) ELSE section
    /\ LET st == renderContentSections(store, Ids, floors)
       IN  store' = [st EXCEPT !.base = [x \in DOMAIN st.likeCounts \ DOMAIN store.likeCounts |->
                                            st.likeCounts[x]] @@ store.base]
    /\ lastEvent' = <<"content", "fulfilled">>
    /\ UNCHANGED <<options, pc, slider, running, pendingResize, nNext, nPrev, popover, manager, cache>>

\* One turn of the forEach of initializeSliders: new Slider(...) on the rail, and
\* the push to this.sliders unless the constructor threw.
InitializeSlider ==
    /\ app.pc = "sliders"
    /\ app.i <= Len(app.rails)
    /\ LET made == constructor
       IN  /\ slider' = made.s
           /\ pc' = IF made.error = "" THEN "constructed" ELSE "threw"
           /\ running' = FALSE
           /\ app' = [app EXCEPT
                        !.sliders = IF made.error = ""
                                    THEN Append(@, [rail |-> app.i, track |-> made.s.track])
                                    ELSE @,
                        !.i = @ + 1]
    /\ section' = IF app.i < Len(app.rails)
                  THEN RailSection(app.rails[app.i + 1], section.offsetWidth) ELSE section
    /\ lastEvent' = <<"slider", "">>
    /\ UNCHANGED <<options, pendingResize, nNext, nPrev, store, popover, manager, cache>>

\* initializeSliders has returned: hideLoading(main), and loadMainContent ends.
SlidersInitialized ==
    /\ app.pc = "sliders"
    /\ app.i > Len(app.rails)
    /\ app' = [hideLoading(app) EXCEPT !.pc = "loading", !.mainPromise = "fulfilled"]
    /\ lastEvent' = <<"sliders", "">>
    /\ UNCHANGED <<rail, store, popover, manager, cache>>

\* Promise.all settles: init ends, through handleAppError if a loader rejected.
InitSettles ==
    /\ app.pc = "loading"
    /\ app.heroPromise # "pending" /\ app.mainPromise # "pending"
    /\ app' = IF "rejected" \in {app.heroPromise, app.mainPromise}
              THEN handleAppError(app)
              ELSE [app EXCEPT !.pc = "ready"]
    /\ lastEvent' = <<"init", "settled">>
    /\ UNCHANGED <<rail, store, popover, manager, cache>>

\* The user presses a reload button of an error view: the page is loaded again.
Reload ==
    /\ app.pc \in {"ready", "failed"}
    /\ app.heroView = "error" \/ app.mainError \/ app.fullPageError
    /\ app.loads < MaxLoads
    /\ app' = [AppAtRest EXCEPT !.hasHero = app.hasHero, !.rails = app.rails,
                                !.loads = app.loads + 1]
    /\ slider' = FieldDefaults
    /\ pc' = "new"
    /\ store' = StoreAtRest
    /\ lastEvent' = <<"reload", "">>
    /\ UNCHANGED <<options, section, running, pendingResize, nNext, nPrev, popover, manager, cache>>

AppNext ==
    \/ AppStart
    \/ \E ok \in BOOLEAN : HeroFetchSettles(ok)
    \/ ContentFetchRejects
    \/ \E floors \in [Ids -> RandomFloors] : ContentFetchFulfils(floors)
    \/ InitializeSlider
    \/ SlidersInitialized
    \/ InitSettles
    \/ Reload

SpecApp == AppInit /\ [][AppNext]_vars

\* initializeSliders has gone through every rail of the document.
RailsVisited == app.contentFetch = "fulfilled" /\ app.i > Len(app.rails)

GoodRail(r) == r.hasCardRow /\ r.children > 0

Retained(i) == \E k \in 1..Len(app.sliders) : app.sliders[k].rail = i

\* C22. Rail isolation: once initializeSliders has visited the rails, every rail
\* that can be constructed has an initialized engine in the page's list, whatever
\* its siblings are, and no engine is retained for a rail whose construction failed.
RailIsolation ==
    RailsVisited =>
        \A i \in 1..Len(app.rails) :
            /\ GoodRail(app.rails[i]) =>
                   \E k \in 1..Len(app.sliders) :
                       app.sliders[k].rail = i /\ app.sliders[k].track
            /\ ~GoodRail(app.rails[i]) => ~Retained(i)

\* The page has tried both requests and both were rejected.
BothFetchesRejected ==
    /\ app.heroFetch = "rejected" /\ app.contentFetch = "rejected"
    /\ app.pc \in {"ready", "failed"}

\* C23. When both the hero request and the content request are rejected, the
\* top-level handler runs once and shows the full-page error with its reload
\* button; no request is issued a second time within a load of the page.
TopLevelFailureHandling ==
    /\ BothFetchesRejected => (app.appErrors = 1 /\ app.fullPageError)
    /\ app.heroFetches <= 1 /\ app.contentFetches <= 1

---------------------------------------------------------------------------
(* Dots, buttons and keys *)

\* C25. Dot click consistency: clicking dot p (0 <= p < totalPages) while Idle
\* leaves the pagination showing page p + 1 with dot p as the only active dot,
\* whatever currentIndex was before.
DotClickConsistency ==
    [][ \A p \in 0..MaxPage :
            (Idle /\ ClickDot(p)) =>
                /\ slider'.currentPage = p + 1
                /\ slider'.activeDots = {p}
                /\ slider'.labelPages = slider.totalPages ]_vars

\* C25 happens: the last dot of a rail of several pages has been clicked, and
\* it is the active one.
DotClickWitness ==
    /\ Built /\ slider.isMoving
    /\ lastEvent = <<"goToPage", "accepted">>
    /\ slider.totalPages > 1
    /\ slider.currentIndex = (slider.totalPages - 1) * options.step
    /\ slider.activeDots = {slider.totalPages - 1}
    /\ slider.currentPage = slider.totalPages

\* C26. In non-infinite mode, while the next control is disabled no click on it
\* and no ArrowRight key increases currentIndex, and while the previous control
\* is disabled no click on it and no ArrowLeft key decreases currentIndex.
DisabledControlsGuardInput ==
    [][ (Built /\ ~options.infinite) =>
            /\ (slider.nextDisabled /\ (ClickNext \/ KeyArrowRight)) =>
                   slider'.currentIndex <= slider.currentIndex
            /\ (slider.prevDisabled /\ (ClickPrev \/ KeyArrowLeft)) =>
                   slider'.currentIndex >= slider.currentIndex ]_vars

---------------------------------------------------------------------------
(* The like subsystem as a state machine *)

LikesInit ==
    /\ options = [visible |-> 1, step |-> 1, infinite |-> TRUE, duration |-> DefaultDuration]
    /\ section = [hasCardRow |-> FALSE, children |-> 0, offsetWidth |-> 100]
    /\ pc = "new"
    /\ slider = FieldDefaults
    /\ running = FALSE
    /\ pendingResize = 0
    /\ lastEvent = <<"none", "">>
    /\ nNext = 0
    /\ nPrev = 0
    /\ app = AppAtRest
    /\ store = StoreAtRest
    /\ popover = PopoverAtRest
    /\ manager = ManagerAtRest
    /\ cache = CacheAtRest

\* The run of toggleLike calls on one id after one more call: the state of the
\* id before the run, the number of calls (a third call starts a new run) and
\* what the calls returned.
Streak(st, id, returned) ==
    IF st.streak # <<>> /\ st.streak.id = id /\ st.streak.n = 1
    THEN [st.streak EXCEPT !.n = 2, !.returned = Append(@, returned)]
    ELSE [id |-> id, n |-> 1, liked |-> isLiked(st, id), count |-> getLikeCount(st, id),
          returned |-> <<returned>>]

\* toggleLike(id): a click or a key on the like button, or a caller.
ToggleLike(id) ==
    /\ LET t == toggleLike(store, id)
       IN  store' = [t.st EXCEPT !.streak = Streak(store, id, t.returned)]
    /\ lastEvent' = <<"toggleLike", id>>
    /\ UNCHANGED <<rail, app, popover, manager, cache>>

\* initializeContentCounts(contentIds)
InitializeContentCounts(contentIds, floors) ==
    /\ LET st == initializeRandomCounts(store, contentIds, floors)
       IN  store' = [st EXCEPT !.base = [x \in DOMAIN st.likeCounts \ DOMAIN store.likeCounts |->
                                            st.likeCounts[x]] @@ store.base,
                               !.streak = <<>>]
    /\ lastEvent' = <<"initializeContentCounts", contentIds>>
    /\ UNCHANGED <<rail, app, popover, manager, cache>>

\* renderLikeButton(content), as createCard calls it.
RenderLikeButton(id) ==
    /\ store' = [renderLikeButton(store, id) EXCEPT !.streak = <<>>]
    /\ lastEvent' = <<"renderLikeButton", id>>
    /\ UNCHANGED <<rail, app, popover, manager, cache>>

ClearAllLikes ==
    /\ store.clears < MaxClears
    /\ store' = [clearAllLikes(store) EXCEPT !.streak = <<>>, !.clears = @ + 1]
    /\ lastEvent' = <<"clearAllLikes", "">>
    /\ UNCHANGED <<rail, app, popover, manager, cache>>

DestroyLikeManager ==
    /\ store.likeButtons # <<>>
    /\ store' = [destroyLikeManager(store) EXCEPT !.streak = <<>>]
    /\ lastEvent' = <<"destroy", "likes">>
    /\ UNCHANGED <<rail, app, popover, manager, cache>>

LikesNext ==
    \/ \E id \in Ids : ToggleLike(id)
    \/ \E contentIds \in SUBSET Ids : \E floors \in [contentIds -> RandomFloors] :
           InitializeContentCounts(contentIds, floors)
    \/ \E id \in Ids : RenderLikeButton(id)
    \/ ClearAllLikes
    \/ DestroyLikeManager

SpecLikes == LikesInit /\ [][LikesNext]_vars

\* C24. The store is keyed per id: toggleLike(a) flips the liked flag of a and
\* changes its count, and leaves flag and count of every other id alone;
\* initializeContentCounts changes no count that exists, no flag, and gives
\* each new id a count within 10..500.
LikeStoreKeyed ==
    [][ /\ \A a \in Ids :
               lastEvent' = <<"toggleLike", a>> =>
                   /\ isLiked(store', a) # isLiked(store, a)
                   /\ getLikeCount(store', a) # getLikeCount(store, a)
                   /\ \A b \in Ids \ {a} :
                          /\ isLiked(store', b) = isLiked(store, b)
                          /\ (b \in DOMAIN store'.likeCounts) = (b \in DOMAIN store.likeCounts)
                          /\ getLikeCount(store', b) = getLikeCount(store, b)
        /\ lastEvent'[1] = "initializeContentCounts" =>
               /\ store'.likes = store.likes
               /\ \A x \in DOMAIN store.likeCounts :
                      /\ x \in DOMAIN store'.likeCounts
                      /\ store'.likeCounts[x] = store.likeCounts[x]
               /\ \A x \in DOMAIN store'.likeCounts \ DOMAIN store.likeCounts :
                      /\ x \in lastEvent'[2]
                      /\ store'.likeCounts[x] \in 10..500 ]_vars

\* C24 happens: initializeContentCounts has run over both ids after the first
\* was liked: its count of 1 was kept and the second got the top of the range.
LikeStoreKeyedWitness ==
    /\ lastEvent = <<"initializeContentCounts", {1, 2}>>
    /\ isLiked(store, 1) /\ getLikeCount(store, 1) = 1
    /\ getLikeCount(store, 2) = (RandomSpan - 1) + RandomBase

\* C27. Like toggle round trip: after two toggleLike calls in a row on an id,
\* its liked flag and its count are what they were before the two calls, and
\* the two calls returned opposite booleans.
ToggleRoundTrip ==
    (store.streak # <<>> /\ store.streak.n = 2) =>
        /\ isLiked(store, store.streak.id) = store.streak.liked
        /\ getLikeCount(store, store.streak.id) = store.streak.count
        /\ store.streak.returned[1] # store.streak.returned[2]

\* C27 happens: an id that was liked when clearAllLikes ran has been unliked
\* and liked again by two calls in a row.
ToggleRoundTripWitness ==
    /\ store.streak # <<>> /\ store.streak.n = 2
    /\ store.clears = 1
    /\ store.streak.liked
    /\ store.streak.id \in DOMAIN store.base
    /\ store.streak.count = store.base[store.streak.id] + 2
    /\ store.streak.returned = <<FALSE, TRUE>>

\* C28. Like count tracks liked state: for every id whose count was initialized
\* to base(id), the count is base(id) + 1 while the id is liked and base(id)
\* while it is not.
CountTracksLiked ==
    \A id \in DOMAIN store.base :
        getLikeCount(store, id) = store.base[id] + (IF isLiked(store, id) THEN 1 ELSE 0)

\* C29. No count is negative, and a liked id has a count of at least 1.
CountsNonNegative ==
    \A id \in Ids :
        /\ getLikeCount(store, id) >= 0
        /\ isLiked(store, id) => getLikeCount(store, id) >= 1

\* C29 happens: an id never given a random count has been liked and unliked,
\* its count back at 0, while another one is liked with a count of 1.
CountsNonNegativeWitness ==
    /\ lastEvent = <<"toggleLike", 1>>
    /\ ~isLiked(store, 1)
    /\ 1 \in DOMAIN store.likeCounts /\ store.likeCounts[1] = 0
    /\ isLiked(store, 2) /\ getLikeCount(store, 2) = 1

---------------------------------------------------------------------------
(* The popover: HoverModal, its timers, the pointer and the focus *)

\* Pending timers set through a field of this.timers.
Pending(tm) == (IF tm.field = "live" THEN 1 ELSE 0) + tm.orphans

\* if (field) { clearTimeout(field); field = null }
clearTimer(tm) == [tm EXCEPT !.field = "null"]

\* field = setTimeout(...): the timer the field named goes on running.
setTimer(tm) ==
    [tm EXCEPT !.field = "live",
               !.orphans = IF tm.field = "live" THEN @ + 1 ELSE @]

clearOpenTimer(p) == [p EXCEPT !.open = clearTimer(@)]

clearCloseTimer(p) == [p EXCEPT !.close = clearTimer(@)]

queueOpen(p) == [clearCloseTimer(p) EXCEPT !.open = setTimer(@)]

queueClose(p) == [clearOpenTimer(p) EXCEPT !.close = setTimer(@)]

\* _position leaves the container hidden; show() then unhides it.
position(p) == [p EXCEPT !.hidden = TRUE]

show(p) ==
    IF p.isVisible THEN p
    ELSE [position(p) EXCEPT !.hidden = FALSE, !.ariaHidden = FALSE,
                             !.ariaExpanded = TRUE, !.isVisible = TRUE,
                             !.focus = IF p.type = "profile" THEN "container" ELSE @]

hide(p) ==
    IF ~p.isVisible THEN p
    ELSE [clearCloseTimer(clearOpenTimer(p)) EXCEPT
              !.ariaHidden = TRUE, !.ariaExpanded = FALSE,
              !.hides = @ + 1, !.isVisible = FALSE]

\* _open
open(p) == show(clearCloseTimer(clearOpenTimer(p)))

\* trigger.focus(): a trigger that gets the focus gets focusin, and its
\* listener runs _open; the focusout of the container names the trigger as
\* relatedTarget and queues nothing.
focusTrigger(p) ==
    IF p.focus = "trigger" THEN p ELSE open([p EXCEPT !.focus = "trigger"])

\* The keydown listener of the document on Escape.
escapeDocument(p) == IF p.isVisible THEN focusTrigger(hide(p)) ELSE p

\* The click listener of the document, bound when closeOnOutsideClick is set,
\* on a click outside the container and the trigger.
outsideClick(p) == IF p.isVisible THEN hide(p) ELSE p

\* HoverModal.destroy: both timers cleared, the container taken out of the
\* portal; pointer and focus cannot stay on it.
destroyModal(p) ==
    [clearCloseTimer(clearOpenTimer(p)) EXCEPT
        !.attached = FALSE,
        !.pointer = IF @ = "container" THEN "outside" ELSE @,
        !.focus = IF @ = "container" THEN "outside" ELSE @,
        !.close.old = 0]

\* The callback of hide() without its look at isVisible.
hideCallbackUnguarded(p) == [p EXCEPT !.hidden = TRUE]

\* The callback hide() schedules.
hideCallback(p) == IF ~p.isVisible THEN [p EXCEPT !.hidden = TRUE] ELSE p

PopoverInit ==
    /\ options = [visible |-> 1, step |-> 1, infinite |-> TRUE, duration |-> DefaultDuration]
    /\ section = [hasCardRow |-> FALSE, children |-> 0, offsetWidth |-> 100]
    /\ pc = "new"
    /\ slider = FieldDefaults
    /\ running = FALSE
    /\ pendingResize = 0
    /\ lastEvent = <<"none", "">>
    /\ nNext = 0
    /\ nPrev = 0
    /\ app = AppAtRest
    /\ store = StoreAtRest
    /\ popover \in {[PopoverAtRest EXCEPT !.type = ty, !.closeOnOutsideClick = c] :
                        ty \in {"profile", "notifications"}, c \in BOOLEAN}
    /\ manager = ManagerAtRest
    /\ cache = CacheAtRest

\* What a handler that took the modal to `p2' leaves behind.
PopoverHandled(p2, event) ==
    /\ p2.open.orphans <= MaxOrphans /\ p2.close.orphans <= MaxOrphans
    /\ p2.hides <= MaxHides
    /\ popover' = p2
    /\ lastEvent' = event
    /\ UNCHANGED <<rail, app, store, manager, cache>>

\* The pointer comes onto the trigger: mouseenter.
PointerEntersTrigger ==
    /\ popover.pointer = "outside"
    /\ PopoverHandled(queueOpen([popover EXCEPT !.pointer = "trigger"]),
                      <<"mouseenter", "trigger">>)

\* The pointer leaves the trigger: mouseleave.
PointerLeavesTrigger ==
    /\ popover.pointer = "trigger"
    /\ PopoverHandled(queueClose([popover EXCEPT !.pointer = "outside"]),
                      <<"mouseleave", "trigger">>)

\* The pointer comes onto the container, which is displayed: mouseenter. The
\* close timers still pending are from before.
PointerEntersContainer ==
    /\ popover.pointer = "outside"
    /\ popover.attached /\ ~popover.hidden
    /\ LET p2 == clearCloseTimer([popover EXCEPT !.pointer = "container"])
       IN  PopoverHandled([p2 EXCEPT !.close.old = p2.close.orphans],
                          <<"mouseenter", "container">>)

\* The pointer leaves the container: mouseleave, which a container no longer
\* displayed may or may not get.
PointerLeavesContainer(delivered) ==
    /\ popover.pointer = "container"
    /\ delivered \/ popover.hidden
    /\ LET left == [popover EXCEPT !.pointer = "outside", !.close.old = 0]
       IN  PopoverHandled(IF delivered THEN queueClose(left) ELSE left,
                          <<"mouseleave", "container">>)

\* The focus comes to the trigger: focusin, and _open.
FocusTrigger ==
    /\ popover.focus # "trigger"
    /\ PopoverHandled(open([popover EXCEPT !.focus = "trigger"]), <<"focusin", "trigger">>)

\* The focus goes into the displayed container: the focusout of the trigger
\* has its relatedTarget inside the container and queues nothing.
FocusContainer ==
    /\ popover.focus # "container"
    /\ popover.attached /\ ~popover.hidden
    /\ PopoverHandled([popover EXCEPT !.focus = "container"], <<"focusin", "container">>)

\* The focus goes elsewhere: focusout of the trigger or of the container.
FocusLeaves ==
    /\ popover.focus # "outside"
    /\ PopoverHandled(queueClose([popover EXCEPT !.focus = "outside"]),
                      <<"focusout", popover.focus>>)

\* An open timer expires: the one timers.open names, or one it no longer names.
OpenTimerFires(named) ==
    /\ IF named THEN popover.open.field = "live" ELSE popover.open.orphans > 0
    /\ LET fired == IF named THEN [popover EXCEPT !.open.field = "stale"]
                    ELSE [popover EXCEPT !.open.orphans = @ - 1]
       IN  PopoverHandled(open(fired), <<"timer", "open">>)

\* A close timer expires: the one timers.close names ("named"), or one it no
\* longer names, set before the pointer came onto the container ("old") or
\* after ("new").
CloseTimerFires(which) ==
    /\ CASE which = "named" -> popover.close.field = "live"
         [] which = "old"   -> popover.close.old > 0
         [] which = "new"   -> popover.close.orphans > popover.close.old
    /\ LET fired == CASE which = "named" -> [popover EXCEPT !.close.field = "stale"]
                      [] which = "old"   -> [popover EXCEPT !.close.orphans = @ - 1,
                                                            !.close.old = @ - 1]
                      [] which = "new"   -> [popover EXCEPT !.close.orphans = @ - 1]
       IN  PopoverHandled(hide(fired), <<"timer", "close", which>>)

\* A 200 ms callback of hide() runs. A container that gets hidden loses the
\* focus it held.
HideCallback ==
    /\ popover.hides > 0
    /\ LET p2 == hideCallback([popover EXCEPT !.hides = @ - 1])
       IN  PopoverHandled([p2 EXCEPT !.focus = IF p2.hidden /\ @ = "container"
                                               THEN "outside" ELSE @],
                          <<"timer", "hide">>)

\* show(), called on the modal.
Show == PopoverHandled(show(popover), <<"show", "">>)

\* hide(), called on the modal, as ModalManager.hideAll does.
Hide == PopoverHandled(hide(popover), <<"hide", "">>)

\* The Escape key: with the focus on a menu item of the profile menu the
\* listener of the item runs (hide(), then trigger.focus()), and the event
\* goes on to the document.
EscapeKey ==
    PopoverHandled(IF popover.focus = "container" /\ popover.type = "profile"
                   THEN escapeDocument(focusTrigger(hide(popover)))
                   ELSE escapeDocument(popover),
                   <<"keydown", "Escape">>)

\* A menu item of the displayed profile menu is clicked, by the pointer on the
\* container (the item may take the focus) or by Enter or Space on the item.
MenuItemClick(focused) ==
    /\ popover.type = "profile"
    /\ popover.attached /\ ~popover.hidden
    /\ popover.pointer = "container" \/ popover.focus = "container"
    /\ focused \/ popover.focus # "container"
    /\ PopoverHandled(hide([popover EXCEPT !.focus = IF focused THEN "container" ELSE @]),
                      <<"click", "menuitem">>)

\* A click away from the trigger and the container.
OutsideClick ==
    /\ popover.closeOnOutsideClick
    /\ popover.pointer = "outside"
    /\ PopoverHandled(outsideClick(popover), <<"click", "outside">>)

\* destroy(), as ModalManager.unregister and ModalManager.destroy call it.
DestroyModal ==
    /\ popover.attached
    /\ PopoverHandled(destroyModal(popover), <<"destroy", "modal">>)

PopoverNext ==
    \/ Show
    \/ Hide
    \/ EscapeKey
    \/ \E focused \in BOOLEAN : MenuItemClick(focused)
    \/ OutsideClick
    \/ DestroyModal
    \/ PointerEntersTrigger
    \/ PointerLeavesTrigger
    \/ PointerEntersContainer
    \/ \E delivered \in BOOLEAN : PointerLeavesContainer(delivered)
    \/ FocusTrigger
    \/ FocusContainer
    \/ FocusLeaves
    \/ \E named \in BOOLEAN : OpenTimerFires(named)
    \/ \E which \in {"named", "old", "new"} : CloseTimerFires(which)
    \/ HideCallback

SpecPopover == PopoverInit /\ [][PopoverNext]_vars

\* C30. Popover close cancellation: at most one close timer and at most one
\* open timer are pending at a time, and no close timer set before the pointer
\* came onto the container fires and hides the popover while the pointer is
\* still on it.
CloseCancellation ==
    [][ /\ Pending(popover'.close) <= 1
        /\ Pending(popover'.open) <= 1
        /\ (popover.pointer = "container" /\ popover.isVisible /\ CloseTimerFires("old")) =>
               popover'.isVisible ]_vars

\* The attributes agree with isVisible.
VisibilityAgrees(p) ==
    /\ p.isVisible => (~p.hidden /\ p.ariaExpanded)
    /\ (~p.isVisible /\ p.hides = 0) => p.hidden

\* C31. Popover visibility consistency: whenever isVisible is true the
\* container is not hidden and aria-expanded is true; whenever isVisible is
\* false and no callback of hide() is pending the container is hidden; show()
\* while visible and hide() while not visible change nothing.
VisibilityConsistent ==
    [][ /\ VisibilityAgrees(popover) /\ VisibilityAgrees(popover')
        /\ (popover.isVisible /\ Show) => popover' = popover
        /\ (~popover.isVisible /\ Hide) => popover' = popover ]_vars

\* C31 happens: the popover was hidden and shown again before the callback of
\* the hide ran; the callback has run and the container is still displayed.
VisibilityConsistentWitness ==
    /\ lastEvent = <<"timer", "hide">>
    /\ popover.isVisible /\ ~popover.hidden /\ popover.ariaExpanded
    /\ popover.hides = 0

----------------------------------------------------------------------------
(* ModalManager *)

ModalTypes == {"notifications", "profile"}

\* What register and unregister are given: an element, or a selector naming
\* an attribute and its value ("" for any value).
Selectors ==
    {[element |-> t, attr |-> "", value |-> ""] : t \in Triggers}
        \cup {[element |-> 0, attr |-> "data-modal", value |-> ty] : ty \in ModalTypes}
        \cup {[element |-> 0, attr |-> "data-hover-modal", value |-> ""]}

\* document.querySelectorAll(selector), or [selector] for an element.
querySelectorAll(m, sel) ==
    IF sel.element # 0 THEN {sel.element}
    ELSE IF sel.attr = "data-modal" THEN {t \in Triggers : m.dataModal[t] = sel.value}
    ELSE {t \in Triggers : m.hoverModal[t] # "none"}

\* The body of register's forEach without its look at the Map.
registerAlways(m, trigger, type) ==
    [m EXCEPT !.modals = Put(@, trigger, [id |-> m.made + 1, type |-> type]),
              !.live = @ \cup {<<trigger, m.made + 1>>},
              !.made = @ + 1,
              !.destroyed = {}]

\* The body of register's forEach for one trigger.
registerTrigger(m, trigger, type) ==
    IF trigger \in DOMAIN m.modals THEN [m EXCEPT !.destroyed = {}]
    ELSE [m EXCEPT !.modals = Put(@, trigger, [id |-> m.made + 1, type |-> type]),
                   !.live = @ \cup {<<trigger, m.made + 1>>},
                   !.made = @ + 1,
                   !.destroyed = {}]

\* register's forEach from trigger `from' on, in document order.
RECURSIVE registerFrom(_, _, _, _)
registerFrom(m, triggers, type, from) ==
    IF from > MaxTriggers THEN m
    ELSE registerFrom(IF from \in triggers THEN registerTrigger(m, from, type) ELSE m,
                      triggers, type, from + 1)

\* ModalManager.register
register(m, sel, type) ==
    IF m.pc = "new" THEN m
    ELSE registerFrom([m EXCEPT !.destroyed = {}], querySelectorAll(m, sel), type, 1)

\* ModalManager.unregister: modal.destroy() and modals.delete for each
\* trigger the Map holds.
unregister(m, sel) ==
    LET found == querySelectorAll(m, sel) \cap DOMAIN m.modals
        gone == {<<tr, m.modals[tr].id>> : tr \in found}
    IN [m EXCEPT !.modals = [tr \in (DOMAIN @) \ found |-> @[tr]],
                 !.live = @ \ gone,
                 !.destroyed = gone]

\* ModalManager.destroy: every modal destroyed, the Map cleared, the portal
\* taken out of the document; the field portal keeps the element.
destroyManager(m) ==
    [m EXCEPT !.modals = <<>>,
              !.live = @ \ {<<tr, m.modals[tr].id>> : tr \in DOMAIN m.modals},
              !.destroyed = {<<tr, m.modals[tr].id>> : tr \in DOMAIN m.modals},
              !.portal = FALSE]

\* The first loop of initHoverModals from trigger `from' on.
RECURSIVE registerHoverModals(_, _)
registerHoverModals(m, from) ==
    IF from > MaxTriggers THEN m
    ELSE registerHoverModals(
            IF m.hoverModal[from] \in ModalTypes
            THEN register(m, [element |-> from, attr |-> "", value |-> ""], m.hoverModal[from])
            ELSE m,
            from + 1)

\* initHoverModals: new ModalManager(options), which finds or creates the
\* portal, then the registrations.
initHoverModals(m) ==
    register(register(registerHoverModals([m EXCEPT !.pc = "ready", !.portal = TRUE], 1),
                      [element |-> 0, attr |-> "data-modal", value |-> "notifications"],
                      "notifications"),
             [element |-> 0, attr |-> "data-modal", value |-> "profile"], "profile")

\* data-hover-modal and data-modal of a trigger: neither, the first alone,
\* both with one type, both with two types, a data-hover-modal of no known
\* type beside a data-modal.
ManagerInit ==
    /\ options = [visible |-> 1, step |-> 1, infinite |-> TRUE, duration |-> DefaultDuration]
    /\ section = [hasCardRow |-> FALSE, children |-> 0, offsetWidth |-> 100]
    /\ pc = "new"
    /\ slider = FieldDefaults
    /\ running = FALSE
    /\ pendingResize = 0
    /\ lastEvent = <<"none", "">>
    /\ nNext = 0
    /\ nPrev = 0
    /\ app = AppAtRest
    /\ store = StoreAtRest
    /\ popover = PopoverAtRest
    /\ manager \in {[ManagerAtRest EXCEPT !.hoverModal = [tr \in Triggers |-> markup[tr][1]],
                                          !.dataModal = [tr \in Triggers |-> markup[tr][2]]] :
                        markup \in [Triggers ->
                            { <<"none", "none">>, <<"profile", "none">>,
                              <<"profile", "profile">>, <<"notifications", "profile">>,
                              <<"other", "notifications">> }]}
    /\ cache = CacheAtRest

\* What a call that took the manager to `m2' leaves behind.
ManagerHandled(m2, event) ==
    /\ m2.made <= MaxModals
    /\ manager' = m2
    /\ lastEvent' = event
    /\ UNCHANGED <<rail, app, store, popover, cache>>

InitHoverModals ==
    /\ manager.pc = "new"
    /\ ManagerHandled(initHoverModals(manager), <<"initHoverModals", "">>)

Register(sel, type) ==
    /\ manager.pc = "ready"
    /\ ManagerHandled(register(manager, sel, type), <<"register", sel.attr>>)

Unregister(sel) ==
    /\ manager.pc = "ready"
    /\ ManagerHandled(unregister(manager, sel), <<"unregister", sel.attr>>)

DestroyManager ==
    /\ manager.pc = "ready"
    /\ ManagerHandled(destroyManager(manager), <<"destroy", "manager">>)

ManagerNext ==
    \/ InitHoverModals
    \/ \E sel \in Selectors, type \in ModalTypes : Register(sel, type)
    \/ \E sel \in Selectors : Unregister(sel)
    \/ DestroyManager

SpecManager == ManagerInit /\ [][ManagerNext]_vars

\* The live modals of a trigger.
LiveModals(m, trigger) == {pair \in m.live : pair[1] = trigger}

\* Each trigger has at most one live modal, the one the Map holds for it.
OneModal(m) ==
    \A tr \in Triggers :
        /\ Cardinality(LiveModals(m, tr)) <= 1
        /\ LiveModals(m, tr) =
                IF tr \in DOMAIN m.modals THEN {<<tr, m.modals[tr].id>>} ELSE {}

\* C32. ModalManager keeps at most one HoverModal per trigger element: after
\* any sequence of register and unregister calls, initHoverModals registering
\* one element through both selectors included, each trigger maps to at most
\* one live modal, and unregister destroys and removes exactly the modals of
\* the triggers it is given.
OneModalPerTrigger ==
    [][ /\ OneModal(manager) /\ OneModal(manager')
        /\ \A sel \in Selectors :
              Unregister(sel) =>
                  \A tr \in Triggers :
                      IF tr \in querySelectorAll(manager, sel)
                      THEN /\ tr \notin DOMAIN manager'.modals
                           /\ LiveModals(manager', tr) = {}
                      ELSE /\ LiveModals(manager', tr) = LiveModals(manager, tr)
                           /\ (tr \in DOMAIN manager.modals) = (tr \in DOMAIN manager'.modals)
        /\ \A sel \in Selectors :
              Unregister(sel) =>
                  manager'.destroyed =
                      {pair \in manager.live : pair[1] \in querySelectorAll(manager, sel)} ]_vars

\* C32 happens: a trigger that carries both attributes had one modal, the
\* unregister that has just run destroyed that modal and no other, and the
\* modal of another trigger is still registered.
OneModalPerTriggerWitness ==
    \E tr \in Triggers :
        /\ manager.hoverModal[tr] \in ModalTypes
        /\ manager.dataModal[tr] \in ModalTypes
        /\ lastEvent[1] = "unregister"
        /\ \E id \in 1..MaxModals : manager.destroyed = {<<tr, id>>}
        /\ tr \notin DOMAIN manager.modals
        /\ DOMAIN manager.modals # {}

----------------------------------------------------------------------------
(* DataCache *)

\* DataCache.set
set(c, key, data, ttl) ==
    [c EXCEPT !.cache = Put(@, key, [data |-> data, timestamp |-> c.now, ttl |-> ttl])]

\* DataCache.delete
delete(c, key) == [c EXCEPT !.cache = [k \in (DOMAIN @) \ {key} |-> @[k]]]

\* DataCache.get with an entry expiring when its age reaches its ttl.
getExpiresAtTtl(c, key) ==
    IF key \notin DOMAIN c.cache THEN [c EXCEPT !.returned = <<>>]
    ELSE IF c.now - c.cache[key].timestamp >= c.cache[key].ttl
         THEN [delete(c, key) EXCEPT !.returned = <<>>]
         ELSE [c EXCEPT !.returned = <<c.cache[key].data>>]

\* DataCache.get
get(c, key) ==
    IF key \notin DOMAIN c.cache THEN [c EXCEPT !.returned = <<>>]
    ELSE IF c.now - c.cache[key].timestamp > c.cache[key].ttl
         THEN [delete(c, key) EXCEPT !.returned = <<>>]
         ELSE [c EXCEPT !.returned = <<c.cache[key].data>>]

\* DataCache.clear
clear(c) == [c EXCEPT !.cache = <<>>]

\* DataCache.cleanup
cleanup(c) ==
    [c EXCEPT !.cache =
        [k \in {x \in DOMAIN @ : ~(c.now - @[x].timestamp > @[x].ttl)} |-> @[k]]]

CacheInit ==
    /\ options = [visible |-> 1, step |-> 1, infinite |-> TRUE, duration |-> DefaultDuration]
    /\ section = [hasCardRow |-> FALSE, children |-> 0, offsetWidth |-> 100]
    /\ pc = "new"
    /\ slider = FieldDefaults
    /\ running = FALSE
    /\ pendingResize = 0
    /\ lastEvent = <<"none", "">>
    /\ nNext = 0
    /\ nPrev = 0
    /\ app = AppAtRest
    /\ store = StoreAtRest
    /\ popover = PopoverAtRest
    /\ manager = ManagerAtRest
    /\ cache = CacheAtRest

\* What a call that took the cache to `c2' leaves behind.
CacheHandled(c2, event) ==
    /\ cache' = c2
    /\ lastEvent' = event
    /\ UNCHANGED <<rail, app, store, popover, manager>>

Set(key, data, ttl) ==
    CacheHandled([set(cache, key, data, ttl) EXCEPT
                      !.last[key] = <<[data |-> data, timestamp |-> cache.now, ttl |-> ttl]>>,
                      !.removed = @ \ {key},
                      !.returned = <<>>],
                 <<"set", key>>)

Get(key) == CacheHandled(get(cache, key), <<"get", key>>)

Delete(key) ==
    CacheHandled([delete(cache, key) EXCEPT !.removed = @ \cup {key}, !.returned = <<>>],
                 <<"delete", key>>)

Clear == CacheHandled([clear(cache) EXCEPT !.removed = Keys, !.returned = <<>>], <<"clear", "">>)

Cleanup == CacheHandled([cleanup(cache) EXCEPT !.returned = <<>>], <<"cleanup", "">>)

\* Time passes between two calls.
Tick(d) ==
    /\ cache.ticks < MaxTicks
    /\ CacheHandled([cache EXCEPT !.now = @ + d, !.ticks = @ + 1, !.returned = <<>>],
                    <<"tick", "">>)

\* set is given one of two values and a ttl of 1 or DEFAULT_TTL, which is also
\* what it takes when none is given; Date.now() advances by 1 or by DEFAULT_TTL
\* between two calls.
CacheNext ==
    \/ \E key \in Keys, data \in {"v1", "v2"}, ttl \in {1, DEFAULT_TTL} : Set(key, data, ttl)
    \/ \E key \in Keys : Get(key)
    \/ \E key \in Keys : Delete(key)
    \/ Clear
    \/ Cleanup
    \/ \E d \in {1, DEFAULT_TTL} : Tick(d)

SpecCache == CacheInit /\ [][CacheNext]_vars

\* The most recent set of the key is neither deleted, cleared nor older than
\* its ttl.
Fresh(c, key) ==
    /\ c.last[key] # <<>>
    /\ key \notin c.removed
    /\ c.now - c.last[key][1].timestamp <= c.last[key][1].ttl

\* C33. DataCache expiry: get(key) returns the value of the most recent
\* set(key, v, ttl) if and only if now - timestamp <= ttl and the key was not
\* deleted or cleared since; otherwise it returns null, and the entry is gone
\* from the Map after the get.
CacheExpiry ==
    [][ \A key \in Keys :
            Get(key) =>
                /\ Fresh(cache, key) <=>
                        /\ cache.last[key] # <<>>
                        /\ cache'.returned = <<cache.last[key][1].data>>
                /\ ~Fresh(cache, key) =>
                        /\ cache'.returned = <<>>
                        /\ key \notin DOMAIN cache'.cache ]_vars

\* C33 happens: a get has found an entry older than its ttl, removed it and
\* returned null.
CacheExpiryWitness ==
    \E key \in Keys :
        /\ lastEvent = <<"get", key>>
        /\ cache.last[key] # <<>> /\ key \notin cache.removed
        /\ cache.now - cache.last[key][1].timestamp > cache.last[key][1].ttl
        /\ cache.returned = <<>>
        /\ key \notin DOMAIN cache.cache

----------------------------------------------------------------------------
(* The loading indicator of the main container *)

\* C34. Loading indicator lifecycle: the main container shows the loading
\* indicator only while the content fetch is outstanding; once the fetch has
\* succeeded and the sections are rendered the indicator is no longer in the
\* container, and once it has failed the error view has replaced it.
LoadingIndicatorLifecycle ==
    /\ app.mainLoading => app.contentFetch = "outstanding"
    /\ (app.contentFetch = "fulfilled" /\ app.mainSections) => ~app.mainLoading
    /\ app.contentFetch = "rejected" => (app.mainError /\ ~app.mainLoading)

====
